---------------------------- MODULE Spec2Model ----------------------------
(***************************************************************************)
(* Model of app.py of car-damage-analyzer: the /analyze request handler,   *)
(* the two AI client wrappers, and the report parser (parse_analysis,      *)
(* extract_value, translate_severity, estimate_cost).                      *)
(*                                                                         *)
(* Representation of Python values                                         *)
(*   A Python str is a sequence of lexemes.  A lexeme is either one        *)
(*   punctuation or whitespace character (" ", "\n", "#", "-", "(", ")",  *)
(*   ":", ".", "|") or one maximal run of letters and digits (a word).     *)
(*   The regular expressions of the source are translated over lexemes:    *)
(*   a literal is a sequence of lexemes, \s is the class {" ", "\n"}, and *)
(*   "." is every lexeme but "\n".  The words of the model's alphabet are *)
(*   never proper extensions of a word of a pattern, so no match of the    *)
(*   source begins or ends inside a word of a modelled text.               *)
(*   The Persian literals of the source are written transliterated, since  *)
(*   module text is ASCII: jozi (minor), motevaset (moderate), shadid      *)
(*   (severe), taviz (replace), tamir (repair), imen (safe), gheyr imen    *)
(*   (unsafe), milyun tuman (million toman).                               *)
(*   A value handed to parse_analysis carries its Python type, since the   *)
(*   OpenAI client may hand back None: PyStr(s) or PyNone.                 *)
(***************************************************************************)
EXTENDS Naturals, Sequences, FiniteSets, TLC

VARIABLES pc, request, analysis, parsed, response, call, result

vars == <<pc, request, analysis, parsed, response, call, result>>

-----------------------------------------------------------------------------
(* Bounds of the model *)

\* most lines in a text returned by an AI client
MaxLines == 3

\* most damage tuples in a formatted report
MaxDamages == 2

-----------------------------------------------------------------------------
(* Python values *)

NL == "\n"
SP == " "

PyStr(s) == [type |-> "str", val |-> s]
PyNone == [type |-> "NoneType", val |-> << >>]

\* the empty dict {} and the empty list []
EmptyDict == << >>
EmptyList == << >>

\* str.lower() on one word: the cased words of the alphabet
LowerWord ==
    [ Vehicle |-> "vehicle", Identification |-> "identification",
      Damage |-> "damage", Assessment |-> "assessment",
      Make |-> "make", Manufacturer |-> "manufacturer", Model |-> "model",
      Year |-> "year", License |-> "license", Plate |-> "plate",
      Total |-> "total", Estimated |-> "estimated", Repair |-> "repair",
      Cost |-> "cost", Timeline |-> "timeline", Time |-> "time",
      Safe |-> "safe", Yes |-> "yes",
      Minor |-> "minor", MINOR |-> "minor",
      Moderate |-> "moderate", MODERATE |-> "moderate",
      Severe |-> "severe", SEVERE |-> "severe",
      PNG |-> "png", JPG |-> "jpg" ]

Lower(w) == IF w \in DOMAIN LowerWord THEN LowerWord[w] ELSE w

\* str.lower()
LowerStr(s) == [i \in 1..Len(s) |-> Lower(s[i])]

\* \s of the re module
IsSpace(c) == c \in {SP, NL}

\* str.strip()
RECURSIVE LStrip(_)
LStrip(s) == IF s # << >> /\ IsSpace(Head(s)) THEN LStrip(Tail(s)) ELSE s

RECURSIVE RStrip(_)
RStrip(s) ==
    IF s # << >> /\ IsSpace(s[Len(s)]) THEN RStrip(SubSeq(s, 1, Len(s) - 1))
    ELSE s

Strip(s) == RStrip(LStrip(s))

\* str.split(sep) for a one-character separator
RECURSIVE SplitFrom(_, _, _)
SplitFrom(s, sep, acc) ==
    IF s = << >> THEN <<acc>>
    ELSE IF Head(s) = sep THEN <<acc>> \o SplitFrom(Tail(s), sep, << >>)
    ELSE SplitFrom(Tail(s), sep, Append(acc, Head(s)))

Split(s, sep) == SplitFrom(s, sep, << >>)

\* dict.get(key, default)
DictGet(d, key, default) == IF key \in DOMAIN d THEN d[key] ELSE default

Min(S) == CHOOSE m \in S : \A n \in S : m <= n

-----------------------------------------------------------------------------
(* Regular expression primitives *)

\* a literal of a pattern matches text at position i; ic is re.IGNORECASE
MatchesAt(lit, text, i, ic) ==
    /\ i >= 1
    /\ i + Len(lit) - 1 <= Len(text)
    /\ \A k \in 1..Len(lit) :
          IF ic THEN Lower(text[i + k - 1]) = Lower(lit[k])
          ELSE text[i + k - 1] = lit[k]

\* \s* before a literal that starts with no whitespace: the position after
\* the whole run of whitespace at i
RECURSIVE SkipSpace(_, _)
SkipSpace(text, i) ==
    IF i <= Len(text) /\ IsSpace(text[i]) THEN SkipSpace(text, i + 1) ELSE i

\* the first position at or after i that holds "\n", or Len(text) + 1
RECURSIVE LineEnd(_, _)
LineEnd(text, i) ==
    IF i <= Len(text) /\ text[i] # NL THEN LineEnd(text, i + 1) ELSE i

\* "###" at the start of a header line
Hashes == <<"#", "#", "#">>

\* ###\s*1\.\s*Vehicle\s*Identification\n as the literals between the \s*
VehicleHeader == << Hashes, <<"1", ".">>, <<"Vehicle">>, <<"Identification", NL>> >>

\* ###\s*2\.\s*Damage\s*Assessment\n as the literals between the \s*
DamagesHeader == << Hashes, <<"2", ".">>, <<"Damage">>, <<"Assessment", NL>> >>

\* the position after a match at i of the literals lits, joined by \s*, under
\* re.IGNORECASE; 0 when they do not match at i
RECURSIVE HeaderEnd(_, _, _)
HeaderEnd(lits, text, i) ==
    IF lits = << >> THEN i
    ELSE IF MatchesAt(Head(lits), text, i, TRUE)
         THEN IF Len(lits) = 1 THEN i + Len(Head(lits))
              ELSE HeaderEnd(Tail(lits), text,
                             SkipSpace(text, i + Len(Head(lits))))
         ELSE 0

\* ([\s\S]*?)(?=\n###|\Z) from position e: the shortest run that ends before
\* a "\n" followed by "###", or at the end of the text
RECURSIVE SectionStop(_, _)
SectionStop(text, j) ==
    IF j > Len(text) THEN j
    ELSE IF text[j] = NL /\ MatchesAt(Hashes, text, j + 1, FALSE) THEN j
    ELSE SectionStop(text, j + 1)

\* a faulty variant of SectionSearch: a header that is not found leaves the whole
\* text as the section
SectionSearchWholeText(lits, content) ==
    LET starts == {i \in 1..Len(content) : HeaderEnd(lits, content, i) # 0}
    IN  IF starts = {} THEN [found |-> TRUE, block |-> content]
        ELSE LET e == HeaderEnd(lits, content, Min(starts))
             IN  [found |-> TRUE,
                  block |-> SubSeq(content, e, SectionStop(content, e) - 1)]

\* re.search(header + r"([\s\S]*?)(?=\n###|\Z)", content, re.IGNORECASE):
\* the leftmost match, with group(1) as block
SectionSearch(lits, content) ==
    LET starts == {i \in 1..Len(content) : HeaderEnd(lits, content, i) # 0}
    IN  IF starts = {} THEN [found |-> FALSE, block |-> << >>]
        ELSE LET e == HeaderEnd(lits, content, Min(starts))
             IN  [found |-> TRUE,
                  block |-> SubSeq(content, e, SectionStop(content, e) - 1)]

-----------------------------------------------------------------------------
(* extract_value *)

Sentinel == <<"-", "-", "-">>

\* re.search(rf"{key.strip()}:\s*(.*?)(?=\n|$)", text, re.IGNORECASE).group(1)
\* for a key that occurs at i: \s* takes the whole run of whitespace after
\* the colon, newlines included, and (.*?) runs to the end of the line there
KeyCapture(text, key, i) ==
    LET p == SkipSpace(text, i + Len(key) + 1)
    IN  SubSeq(text, p, LineEnd(text, p) - 1)

KeyStarts(text, key) ==
    {i \in 1..Len(text) : MatchesAt(Append(key, ":"), text, i, TRUE)}

RECURSIVE ExtractKeys(_, _)
ExtractKeys(text, keylist) ==
    IF keylist = << >> THEN Sentinel
    ELSE LET key == Strip(Head(keylist))
             starts == KeyStarts(text, key)
         IN  IF starts # {} THEN Strip(KeyCapture(text, key, Min(starts)))
             ELSE ExtractKeys(text, Tail(keylist))

\* a faulty variant of extract_value: the empty string, not the sentinel, when no
\* synonym occurs
extract_value_no_sentinel(text, keys) ==
    IF ExtractKeys(text, Split(keys, "|")) = Sentinel
       /\ \A k \in 1..Len(Split(keys, "|")) :
              KeyStarts(text, Strip(Split(keys, "|")[k])) = {}
    THEN << >>
    ELSE ExtractKeys(text, Split(keys, "|"))

extract_value(text, keys) == ExtractKeys(text, Split(keys, "|"))

-----------------------------------------------------------------------------
(* translate_severity, estimate_cost *)

severity_map ==
    (<<"minor">> :> <<"jozi">>) @@ (<<"moderate">> :> <<"motevaset">>) @@
    (<<"severe">> :> <<"shadid">>) @@ (<<"jozi">> :> <<"jozi">>) @@
    (<<"motevaset">> :> <<"motevaset">>) @@ (<<"shadid">> :> <<"shadid">>)

translate_severity(severity) ==
    DictGet(severity_map, LowerStr(severity), severity)

costs ==
    (<<"minor">> :> <<"1", "-", "2", SP, "milyun", SP, "tuman">>) @@
    (<<"moderate">> :> <<"3", "-", "5", SP, "milyun", SP, "tuman">>) @@
    (<<"severe">> :> <<"6", "-", "10", SP, "milyun", SP, "tuman">>)

\* a faulty variant of estimate_cost: the lookup without .lower()
estimate_cost_no_lower(severity) == DictGet(costs, severity, Sentinel)

estimate_cost(severity) == DictGet(costs, LowerStr(severity), Sentinel)

-----------------------------------------------------------------------------
(* the damage lines *)

\* (minor|moderate|severe|jozi|motevaset|shadid), case-sensitive
SeverityTokens == {"minor", "moderate", "severe", "jozi", "motevaset", "shadid"}

\* the ends e2 of group 2 for which "\) - " and a severity token follow
TypeEnds(text, b) ==
    {e2 \in b..LineEnd(text, b) :
        /\ MatchesAt(<<")", SP, "-", SP>>, text, e2, FALSE)
        /\ e2 + 4 <= Len(text)
        /\ text[e2 + 4] \in SeverityTokens}

\* the ends e1 of group 1 for which " \(" follows and the rest can match
PartEnds(text, a) ==
    {e1 \in a..LineEnd(text, a) :
        /\ MatchesAt(<<SP, "(">>, text, e1, FALSE)
        /\ TypeEnds(text, e1 + 2) # {}}

\* r"- (.*?) \((.*?)\) - (minor|...)" tried at position i: both groups are
\* lazy and cannot cross a "\n", so each takes its shortest end
DamageMatchAt(text, i) ==
    IF MatchesAt(<<"-", SP>>, text, i, FALSE) /\ PartEnds(text, i + 2) # {}
    THEN LET e1 == Min(PartEnds(text, i + 2))
             e2 == Min(TypeEnds(text, e1 + 2))
         IN  [found |-> TRUE,
              groups |-> << SubSeq(text, i + 2, e1 - 1),
                            SubSeq(text, e1 + 2, e2 - 1),
                            <<text[e2 + 4]>> >>,
              end |-> e2 + 5]
    ELSE [found |-> FALSE, groups |-> << >>, end |-> i]

\* re.findall: the matches from left to right, each search resuming where
\* the match before it ended
RECURSIVE FindAllFrom(_, _)
FindAllFrom(text, i) ==
    IF i > Len(text) THEN << >>
    ELSE LET m == DamageMatchAt(text, i)
         IN  IF m.found THEN <<m.groups>> \o FindAllFrom(text, m.end)
             ELSE FindAllFrom(text, i + 1)

damage_items(block) == FindAllFrom(block, 1)

\* the dict appended for one (part, damage_type, severity)
DamageRecord(item) ==
    [ part |-> Strip(item[1]),
      type |-> Strip(item[2]),
      severity |-> translate_severity(item[3]),
      action |-> IF LowerStr(item[3]) \in {<<"severe">>, <<"shadid">>}
                 THEN <<"taviz">> ELSE <<"tamir">>,
      cost |-> estimate_cost(item[3]) ]

-----------------------------------------------------------------------------
(* parse_analysis *)

Safe == <<"imen">>
Unsafe == <<"gheyr", SP, "imen">>

\* re.search(r"safe to drive: yes|safe: yes", content, re.IGNORECASE)
SafePhraseFound(content) ==
    \E i \in 1..Len(content) :
        \/ MatchesAt(<<"safe", SP, "to", SP, "drive", ":", SP, "yes">>,
                     content, i, TRUE)
        \/ MatchesAt(<<"safe", ":", SP, "yes">>, content, i, TRUE)

VehicleOf(content) ==
    LET vehicle_match == SectionSearch(VehicleHeader, content)
        vehicle_info == vehicle_match.block
    IN  IF vehicle_match.found
        THEN [ make |-> extract_value(vehicle_info,
                                      <<"make", "|", "manufacturer">>),
               model |-> extract_value(vehicle_info, <<"model">>),
               year |-> extract_value(vehicle_info, <<"year">>),
               plate |-> extract_value(vehicle_info,
                                       <<"license", SP, "plate", "|", "plate">>) ]
        ELSE EmptyDict

DamagesOf(content) ==
    LET damages_match == SectionSearch(DamagesHeader, content)
        items == damage_items(damages_match.block)
    IN  IF damages_match.found
        THEN [k \in 1..Len(items) |-> DamageRecord(items[k])]
        ELSE EmptyList

\* an exception leaving a function
Raise(e) == [exception |-> e]
Raised(r) == "exception" \in DOMAIN r

\* the body of the try block: the first re.search raises TypeError when
\* content is no str
ParseBody(content) ==
    IF content.type # "str" THEN Raise("TypeError")
    ELSE LET text == content.val
         IN  [ vehicle |-> VehicleOf(text),
               damages |-> DamagesOf(text),
               total_cost |-> extract_value(text,
                   <<"total", SP, "estimated", SP, "repair", SP, "cost", "|",
                     "total", SP, "cost">>),
               repair_time |-> extract_value(text,
                   <<"estimated", SP, "repair", SP, "timeline", "|",
                     "repair", SP, "time">>),
               safety_status |-> IF SafePhraseFound(text) THEN Safe ELSE Unsafe,
               content |-> content ]

\* the record returned from the except branch
Degraded(content) == [content |-> content]

\* a faulty variant of parse_analysis: the except branch is missing
parse_analysis_no_except(content) == ParseBody(content)

parse_analysis(content) ==
    LET r == ParseBody(content)
    IN  IF Raised(r) THEN Degraded(content) ELSE r

-----------------------------------------------------------------------------
(* the AI clients *)

\* "Analysis failed. Please try again."
Notice ==
    <<"Analysis", SP, "failed", ".", SP, "Please", SP, "try", SP, "again", ".">>

\* a faulty variant of analyze_with_openai: the exception is not caught
analyze_with_openai_reraise(outcome) ==
    IF outcome.raised THEN Raise("APIError") ELSE outcome.value

\* outcome is what the API call did: it raised, or it handed back
\* response.choices[0].message.content
analyze_with_openai(outcome) ==
    IF outcome.raised THEN PyStr(Notice) ELSE outcome.value

\* outcome is what the API call did: it raised, or it handed back response.text
analyze_with_gemini(outcome) ==
    IF outcome.raised THEN PyStr(Notice) ELSE outcome.value

-----------------------------------------------------------------------------
(* the texts an AI client hands back *)

Line(name) ==
    CASE name = "h1" -> Hashes \o <<SP, "1", ".", SP, "Vehicle", SP, "Identification">>
      [] name = "h2" -> Hashes \o <<SP, "2", ".", SP, "Damage", SP, "Assessment">>
      [] name = "h3" -> Hashes \o <<SP, "3", ".", SP, "Repair", SP, "Recommendations">>
      [] name = "make" -> <<"Make", ":", SP, "Toyota">>
      [] name = "minor" -> <<"-", SP, "Hood", SP, "(", "Dented", ")", SP, "-", SP, "minor">>
      [] name = "severe" -> <<"-", SP, "Door", SP, "(", "Cracked", ")", SP, "-", SP, "severe">>
      [] name = "shadid" -> <<"-", SP, "Door", SP, "(", "Cracked", ")", SP, "-", SP, "shadid">>
      [] name = "two" -> <<"-", SP, "Hood", SP, "(", "Dented", ")", SP, "-", SP, "minor",
                           SP, "-", SP, "Door", SP, "(", "Cracked", ")", SP, "-", SP, "severe">>
      [] name = "loose" -> <<"note", SP, "-", SP, "Hood", SP, "(", "Dented", ")", SP, "-", SP,
                             "moderate", SP, "today">>
      [] name = "cost" -> <<"Total", SP, "Cost", ":", SP, "5000">>
      [] name = "safe" -> <<"Safe", SP, "to", SP, "drive", ":", SP, "yes">>
      [] name = "prose" -> <<"The", SP, "car", SP, "looks", SP, "damaged", ".">>

LineNames ==
    {"h1", "h2", "h3", "make", "minor", "severe", "shadid", "two", "loose",
     "cost", "safe", "prose"}

\* "\n".join(lines)
RECURSIVE JoinLines(_)
JoinLines(lines) ==
    IF lines = << >> THEN << >>
    ELSE IF Len(lines) = 1 THEN Head(lines)
    ELSE Head(lines) \o <<NL>> \o JoinLines(Tail(lines))

LineSeqs(names, n) == UNION {[1..k -> names] : k \in 0..n}

Texts ==
    {JoinLines([k \in 1..Len(ns) |-> Line(ns[k])]) : ns \in LineSeqs(LineNames, MaxLines)}

OpenAIOutcomes ==
    {[raised |-> TRUE, value |-> PyNone]}
      \cup {[raised |-> FALSE, value |-> v] : v \in {PyStr(t) : t \in Texts} \cup {PyNone}}

GeminiOutcomes ==
    {[raised |-> TRUE, value |-> PyNone]}
      \cup {[raised |-> FALSE, value |-> PyStr(t)] : t \in Texts}

-----------------------------------------------------------------------------
(* the /analyze handler *)

ALLOWED_EXTENSIONS == {<<"png">>, <<"jpg">>, <<"jpeg">>, <<"gif">>}

\* filename.rsplit(".", 1)[1]
AfterLastDot(filename) ==
    LET parts == Split(filename, ".") IN parts[Len(parts)]

allowed_file(filename) ==
    /\ \E i \in 1..Len(filename) : filename[i] = "."
    /\ LowerStr(AfterLastDot(filename)) \in ALLOWED_EXTENSIONS

\* a form field that is not sent
Missing == "(missing)"

\* request.form.get(key, default)
FormGet(form, key, default) ==
    IF form[key] = Missing THEN default ELSE form[key]

Filenames ==
    { << >>, <<"car", ".", "jpg">>, <<"car", ".", "PNG">>, <<"car", ".", "txt">>,
      <<"car">> }

\* a request: whether request.files holds 'image', the upload's filename,
\* whether file.read() works, and the form.  The form's language only sets
\* the local variable language, which neither client reads.
Requests ==
    [ hasImage : BOOLEAN, filename : Filenames, readable : BOOLEAN,
      form : [api : {Missing, "openai", "gemini"},
              language : {Missing, "persian"}] ]

NoRequest == [engine |-> ""]
NoCall == [fn |-> "", raised |-> FALSE]
Unset == [type |-> "unset", val |-> << >>]
NoReport == << >>
NoResponse == [status |-> 0, body |-> << >>]

\* jsonify(body), status
Response(status, body) == [status |-> status, body |-> body]

\* datetime.now().strftime("%Y-%m-%d %H:%M")
Timestamp == "YYYY-mm-dd HH:MM"

Init ==
    /\ pc = "idle"
    /\ request = NoRequest
    /\ analysis = Unset
    /\ parsed = NoReport
    /\ response = NoResponse
    /\ call = NoCall
    /\ result = Unset

\* analyze() up to the call of the AI client: the two validations, then
\* file.read() and the form fields inside the try block
Receive(req) ==
    /\ pc = "idle"
    /\ IF ~req.hasImage
       THEN /\ response' = Response(400, [error |-> "No image file provided"])
            /\ pc' = "done"
            /\ UNCHANGED request
       ELSE IF req.filename = << >> \/ ~allowed_file(req.filename)
       THEN /\ response' = Response(400, [error |-> "Invalid file format"])
            /\ pc' = "done"
            /\ UNCHANGED request
       ELSE IF ~req.readable
       THEN /\ response' = Response(500, [error |-> "Analysis failed: read"])
            /\ pc' = "done"
            /\ UNCHANGED request
       ELSE /\ request' = [engine |-> FormGet(req.form, "api", "openai")]
            /\ pc' = "calling"
            /\ UNCHANGED response
    /\ UNCHANGED <<analysis, parsed, call, result>>

\* what analyze() does with what the client handed back: an exception goes
\* to the except branch of analyze(), a value is parsed next
Returned(fn, outcome, value) ==
    /\ call' = [fn |-> fn, raised |-> outcome.raised]
    /\ IF Raised(value)
       THEN /\ response' = Response(500, [error |-> "Analysis failed: client"])
            /\ pc' = "done"
            /\ UNCHANGED analysis
       ELSE /\ analysis' = value
            /\ pc' = "parsing"
            /\ UNCHANGED response
    /\ UNCHANGED <<request, parsed, result>>

\* analysis = analyze_with_openai(image_data, language)
CallOpenAI ==
    /\ pc = "calling"
    /\ request.engine = "openai"
    /\ \E outcome \in OpenAIOutcomes :
          Returned("analyze_with_openai", outcome, analyze_with_openai(outcome))

\* analysis = analyze_with_gemini(image_data, language)
CallGemini ==
    /\ pc = "calling"
    /\ request.engine # "openai"
    /\ \E outcome \in GeminiOutcomes :
          Returned("analyze_with_gemini", outcome, analyze_with_gemini(outcome))

\* report = {timestamp, engine, **parse_analysis(analysis)}; jsonify(report)
Respond ==
    /\ pc = "parsing"
    /\ LET r == parse_analysis(analysis)
       IN  IF Raised(r)
           THEN /\ response' = Response(500, [error |-> "Analysis failed: parse"])
                /\ UNCHANGED parsed
           ELSE /\ parsed' = r
                /\ response' =
                     Response(200,
                              r @@ [ timestamp |-> Timestamp,
                                     engine |-> IF request.engine = "openai"
                                                THEN "OpenAI"
                                                ELSE "Google Gemini" ])
    /\ pc' = "done"
    /\ UNCHANGED <<request, analysis, call, result>>

Next ==
    \/ \E req \in Requests : Receive(req)
    \/ CallOpenAI
    \/ CallGemini
    \/ Respond

Spec == Init /\ [][Next]_vars

-----------------------------------------------------------------------------
(* the pure functions, applied to drawn arguments *)

SeverityWords ==
    {"minor", "Minor", "MINOR", "moderate", "Moderate", "MODERATE", "severe",
     "Severe", "SEVERE", "jozi", "motevaset", "shadid", "critical"}

FieldLine(name) ==
    CASE name = "make" -> <<"Make", ":", SP, "Toyota">>
      [] name = "make_empty" -> <<"Make", ":">>
      [] name = "make_blank" -> <<"make", ":", SP, SP>>
      [] name = "manufacturer" -> <<"Manufacturer", ":", SP, "Kia", SP>>
      [] name = "model" -> <<"Model", ":", SP, "Camry">>
      [] name = "license" -> <<"License", SP, "Plate", ":", SP, "ABC123">>
      [] name = "plate" -> <<"Plate", ":", "X1">>
      [] name = "prose" -> <<"The", SP, "car", SP, "looks", SP, "damaged", ".">>

FieldLineNames ==
    {"make", "make_empty", "make_blank", "manufacturer", "model", "license",
     "plate", "prose"}

FieldTexts ==
    {JoinLines([k \in 1..Len(ns) |-> FieldLine(ns[k])]) :
        ns \in LineSeqs(FieldLineNames, MaxLines)}

\* the key lists parse_analysis hands to extract_value
KeyLists ==
    { <<"make", "|", "manufacturer">>, <<"model">>, <<"year">>,
      <<"license", SP, "plate", "|", "plate">>,
      <<"total", SP, "estimated", SP, "repair", SP, "cost", "|", "total", SP, "cost">>,
      <<"estimated", SP, "repair", SP, "timeline", "|", "repair", SP, "time">> }

\* a report text in the expected template, from a vehicle mapping and a
\* list of damage tuples <<part, type, severity>>
RECURSIVE FormatDamages(_)
FormatDamages(ds) ==
    IF ds = << >> THEN << >>
    ELSE <<NL, "-", SP>> \o Head(ds)[1] \o <<SP, "(">> \o Head(ds)[2]
           \o <<")", SP, "-", SP>> \o Head(ds)[3] \o FormatDamages(Tail(ds))

FormatReport(v, ds) ==
    Line("h1") \o <<NL, "Make", ":", SP>> \o v.make
      \o <<NL, "Model", ":", SP>> \o v.model
      \o <<NL, "Year", ":", SP>> \o v.year
      \o <<NL, "License", SP, "Plate", ":", SP>> \o v.plate
      \o <<NL>> \o Line("h2") \o FormatDamages(ds)

Vehicles ==
    [ make : {<<"Toyota">>, <<"Kia">>, << >>}, model : {<<"Camry">>, << >>},
      year : {<<"2019">>}, plate : {<<"ABC123">>, << >>} ]

DamageTuples ==
    {<<p, t, <<sv>> >> : p \in {<<"Hood">>, <<"Front", SP, "Bumper">>},
                         t \in {<<"Dented">>},
                         sv \in {"minor", "severe", "shadid"}}

DamageLists == UNION {[1..k -> DamageTuples] : k \in 0..MaxDamages}

SeverityCalls ==
    {[fn |-> f, args |-> <<<<w>>>>] :
        f \in {"translate_severity", "estimate_cost"}, w \in SeverityWords}

ExtractCalls ==
    {[fn |-> "extract_value", args |-> <<t, ks>>] : t \in FieldTexts, ks \in KeyLists}

RoundTripCalls ==
    {[fn |-> "parse_analysis", args |-> <<v, ds>>] : v \in Vehicles, ds \in DamageLists}

InitFn ==
    /\ pc = "fn"
    /\ \/ call \in SeverityCalls
       \/ call \in ExtractCalls
       \/ call \in RoundTripCalls
    /\ result = Unset
    /\ request = NoRequest
    /\ analysis = Unset
    /\ parsed = NoReport
    /\ response = NoResponse

Return(value) ==
    /\ result' = value
    /\ pc' = "returned"
    /\ UNCHANGED <<request, analysis, parsed, response, call>>

CallTranslateSeverity ==
    /\ pc = "fn"
    /\ call.fn = "translate_severity"
    /\ Return(translate_severity(call.args[1]))

CallEstimateCost ==
    /\ pc = "fn"
    /\ call.fn = "estimate_cost"
    /\ Return(estimate_cost(call.args[1]))

CallExtractValue ==
    /\ pc = "fn"
    /\ call.fn = "extract_value"
    /\ Return(extract_value(call.args[1], call.args[2]))

\* parse_analysis on the report formatted from the call's vehicle and damages
CallParseAnalysis ==
    /\ pc = "fn"
    /\ call.fn = "parse_analysis"
    /\ Return(parse_analysis(PyStr(FormatReport(call.args[1], call.args[2]))))

NextFn ==
    \/ CallTranslateSeverity
    \/ CallEstimateCost
    \/ CallExtractValue
    \/ CallParseAnalysis

SpecFn == InitFn /\ [][NextFn]_vars

-----------------------------------------------------------------------------
(* Properties of the /analyze handler and of parse_analysis, under Spec *)

\* the request ended after parse_analysis was reached
Parsed == pc = "done" /\ analysis # Unset

\* a "### n." header occurs in text
HasNumberedHeader(text, n) ==
    \E i \in 1..Len(text) :
        /\ MatchesAt(Hashes, text, i, FALSE)
        /\ MatchesAt(<<n, ".">>, text, SkipSpace(text, i + 3), FALSE)

\* a line of text starts with "###"
HasHashLine(text) ==
    \/ MatchesAt(Hashes, text, 1, FALSE)
    \/ \E j \in 1..Len(text) : text[j] = NL /\ MatchesAt(Hashes, text, j + 1, FALSE)

\* C1: parse_analysis never raises to analyze(): whatever the client handed
\* back, None included, the request ends with a report whose content is that
\* value unchanged, and when the value is no str (the internal step fails)
\* the record holds content and nothing else.
C1_ParseNeverRaises ==
    Parsed =>
        /\ response.status = 200
        /\ "content" \in DOMAIN parsed
        /\ parsed.content = analysis
        /\ (analysis.type # "str" => DOMAIN parsed = {"content"})

C1_Witness ==
    /\ Parsed
    /\ analysis = PyNone
    /\ response.status = 200
    /\ DOMAIN parsed = {"content"}

\* C2: for a text with neither a "### 1." nor a "### 2." header,
\* parse_analysis returns, without raising, a record whose vehicle is the
\* empty mapping and whose damages is the empty list.
C2_NoHeaders ==
    (/\ Parsed
     /\ analysis.type = "str"
     /\ ~HasNumberedHeader(analysis.val, "1")
     /\ ~HasNumberedHeader(analysis.val, "2"))
    =>  /\ response.status = 200
        /\ {"vehicle", "damages"} \subseteq DOMAIN parsed
        /\ DOMAIN parsed.vehicle = {}
        /\ Len(parsed.damages) = 0

\* a text without the two headers that holds a "Make:" line and a damage line
C2_Witness ==
    /\ Parsed
    /\ analysis.type = "str"
    /\ ~HasNumberedHeader(analysis.val, "1")
    /\ ~HasNumberedHeader(analysis.val, "2")
    /\ \E i \in 1..Len(analysis.val) : analysis.val[i] = "Toyota"
    /\ \E i \in 1..Len(analysis.val) : analysis.val[i] = "severe"
    /\ DOMAIN parsed.vehicle = {}
    /\ Len(parsed.damages) = 0

\* plain prose: no header, no "label: value" line
PlainProse(text) ==
    /\ text # << >>
    /\ \A i \in 1..Len(text) : text[i] \notin {"#", ":"}

\* a field of a report that is present and holds more than the empty
\* mapping, the empty list or the sentinel
Populated(r, f) ==
    /\ f \in DOMAIN r
    /\ IF f = "vehicle" THEN DOMAIN r[f] # {}
       ELSE IF f = "damages" THEN Len(r[f]) > 0
       ELSE r[f] # Sentinel

\* C3 as stated: for plain prose the record holds the raw text and no other
\* populated field.
C3_Original ==
    (Parsed /\ analysis.type = "str" /\ PlainProse(analysis.val))
    =>  /\ parsed.content = analysis
        /\ \A f \in {"vehicle", "damages", "total_cost", "repair_time",
                     "safety_status"} : ~Populated(parsed, f)

\* C3 as amended: for plain prose the record holds the raw text, the empty
\* vehicle mapping, the empty damages list, the sentinel "---" as total_cost
\* and repair_time, and the unsafe label as safety_status.
C3_Amended ==
    (Parsed /\ analysis.type = "str" /\ PlainProse(analysis.val))
    =>  /\ DOMAIN parsed = {"vehicle", "damages", "total_cost", "repair_time",
                            "safety_status", "content"}
        /\ parsed.content = analysis
        /\ DOMAIN parsed.vehicle = {}
        /\ Len(parsed.damages) = 0
        /\ parsed.total_cost = Sentinel
        /\ parsed.repair_time = Sentinel
        /\ parsed.safety_status = Unsafe

C3_Witness ==
    /\ Parsed
    /\ analysis = PyStr(Line("prose") \o <<NL>> \o Line("prose"))
    /\ parsed.safety_status = Unsafe

\* C4: two damage records of a report with equal severity have equal action
\* and equal cost.
C4_CostByOutputSeverity ==
    (Parsed /\ "damages" \in DOMAIN parsed)
    =>  \A i, j \in 1..Len(parsed.damages) :
            parsed.damages[i].severity = parsed.damages[j].severity
            =>  /\ parsed.damages[i].action = parsed.damages[j].action
                /\ parsed.damages[i].cost = parsed.damages[j].cost

\* C7: when the call of the selected AI client fails, the request ends with
\* a report, not an error: its content is the notice, its vehicle and
\* damages are empty.
C7_ClientFailure ==
    (pc = "done" /\ call.raised)
    =>  /\ response.status = 200
        /\ {"content", "vehicle", "damages"} \subseteq DOMAIN response.body
        /\ response.body.content = PyStr(Notice)
        /\ DOMAIN response.body.vehicle = {}
        /\ Len(response.body.damages) = 0

C7_Witness ==
    /\ pc = "done"
    /\ call.raised
    /\ response.status = 200
    /\ response.body.content = PyStr(Notice)

\* C8: the block captured for a section that is found never holds a line
\* that starts with "###".
C8_BlockHoldsNoHeader ==
    (Parsed /\ analysis.type = "str")
    =>  /\ SectionSearch(VehicleHeader, analysis.val).found
             => ~HasHashLine(SectionSearch(VehicleHeader, analysis.val).block)
        /\ SectionSearch(DamagesHeader, analysis.val).found
             => ~HasHashLine(SectionSearch(DamagesHeader, analysis.val).block)

\* C9: no line of the Damage Assessment block contributes more than one
\* damage record, so damages holds at most one record per line.
C9_OneRecordPerLine ==
    (Parsed /\ analysis.type = "str"
       /\ SectionSearch(DamagesHeader, analysis.val).found)
    =>  LET lines == Split(SectionSearch(DamagesHeader, analysis.val).block, NL)
        IN  /\ \A k \in 1..Len(lines) : Len(damage_items(lines[k])) <= 1
            /\ Len(parsed.damages) <= Len(lines)

-----------------------------------------------------------------------------
(* Properties of the pure functions, under SpecFn *)

ReturnedFrom(f) == pc = "returned" /\ call.fn = f

EnglishTokens == {<<"minor">>, <<"moderate">>, <<"severe">>}

\* C5 as stated: on an English token of any casing each function returns
\* its table's value and is idempotent.
C5_Original ==
    /\ (ReturnedFrom("translate_severity") /\ LowerStr(call.args[1]) \in EnglishTokens)
       =>  /\ result = severity_map[LowerStr(call.args[1])]
           /\ translate_severity(result) = result
    /\ (ReturnedFrom("estimate_cost") /\ LowerStr(call.args[1]) \in EnglishTokens)
       =>  /\ result = costs[LowerStr(call.args[1])]
           /\ estimate_cost(result) = result

\* C5 as amended: on an English token of any casing each function returns
\* its table's value; translate_severity is idempotent, and estimate_cost
\* applied to its own result returns the sentinel "---".
C5_Amended ==
    /\ (ReturnedFrom("translate_severity") /\ LowerStr(call.args[1]) \in EnglishTokens)
       =>  /\ result = severity_map[LowerStr(call.args[1])]
           /\ translate_severity(result) = result
    /\ (ReturnedFrom("estimate_cost") /\ LowerStr(call.args[1]) \in EnglishTokens)
       =>  /\ result = costs[LowerStr(call.args[1])]
           /\ estimate_cost(result) = Sentinel

C5_Witness ==
    /\ ReturnedFrom("estimate_cost")
    /\ call.args[1] = <<"Severe">>
    /\ result = <<"6", "-", "10", SP, "milyun", SP, "tuman">>

\* C6: parse_analysis recovers the vehicle mapping and the damage tuples a
\* report in the expected template was formatted from.
C6_RoundTrip ==
    ReturnedFrom("parse_analysis")
    =>  /\ result.vehicle = call.args[1]
        /\ Len(result.damages) = Len(call.args[2])
        /\ \A k \in 1..Len(call.args[2]) :
              /\ result.damages[k].part = call.args[2][k][1]
              /\ result.damages[k].type = call.args[2][k][2]
              /\ result.damages[k].severity = severity_map[call.args[2][k][3]]

\* the value the first line of text that holds key and a colon gives: what
\* is left of that line after the colon, trimmed
LineValue(text, key) ==
    LET lines == Split(text, NL)
        k == Min({n \in 1..Len(lines) : KeyStarts(lines[n], key) # {}})
        i == Min(KeyStarts(lines[k], key))
    IN  Strip(SubSeq(lines[k], i + Len(key) + 1, Len(lines[k])))

RECURSIVE SameLineValue(_, _)
SameLineValue(text, keylist) ==
    IF keylist = << >> THEN Sentinel
    ELSE IF KeyStarts(text, Head(keylist)) # {} THEN LineValue(text, Head(keylist))
    ELSE SameLineValue(text, Tail(keylist))

\* C10: extract_value returns, for the first synonym that occurs with its
\* colon, the trimmed rest of that same line, and the sentinel when none
\* occurs.
C10_SameLine ==
    ReturnedFrom("extract_value")
    =>  result = SameLineValue(call.args[1], Split(call.args[2], "|"))

=============================================================================
